---------------------------- MODULE Spec2Model ----------------------------
(***************************************************************************)
(* A model of src/src/main.js, the s3-upload-action entry point: run(input) *)
(* and the .then/.catch handlers attached to it.                           *)
(*                                                                         *)
(* JavaScript strings that the program inspects (slices, splits, tests     *)
(* with a regular expression, concatenates) are sequences of one-character *)
(* strings; inputs the program only compares for equality (the 'true' /    *)
(* 'false' flags, the checksum algorithm name) are plain TLA+ strings.     *)
(***************************************************************************)
EXTENDS Integers, Sequences, FiniteSets, TLC

(***************************************************************************)
(* String primitives of the JavaScript runtime, as the program uses them.  *)
(***************************************************************************)

\* The value of a local that has not been assigned (JavaScript undefined).
Undefined == <<"undefined">>

\* The characters String.prototype.trim and parseInt skip.
WhiteSpace == {" ", "\t", "\n"}

Digits == <<"0", "1", "2", "3", "4", "5", "6", "7", "8", "9">>

HexLower == <<"0", "1", "2", "3", "4", "5", "6", "7", "8", "9",
              "a", "b", "c", "d", "e", "f">>

HexUpper == <<"0", "1", "2", "3", "4", "5", "6", "7", "8", "9",
              "A", "B", "C", "D", "E", "F">>

Range(s) == {s[i] : i \in DOMAIN s}

IsDigit(c) == c \in Range(Digits)

IsHexDigit(c) == c \in Range(HexLower) \cup Range(HexUpper)

\* The numeric value of a hexadecimal (hence also decimal) digit.
HexVal(c) ==
  IF c \in Range(HexLower)
  THEN (CHOOSE i \in DOMAIN HexLower : HexLower[i] = c) - 1
  ELSE (CHOOSE i \in DOMAIN HexUpper : HexUpper[i] = c) - 1

\* String.prototype.startsWith
StartsWith(s, p) == Len(p) <= Len(s) /\ SubSeq(s, 1, Len(p)) = p

\* String.prototype.endsWith
EndsWith(s, p) ==
  Len(p) <= Len(s) /\ SubSeq(s, Len(s) - Len(p) + 1, Len(s)) = p

\* String.prototype.slice(n), n >= 0
SliceFrom(s, n) == SubSeq(s, n + 1, Len(s))

\* String.prototype.indexOf, 1-based; 0 when p does not occur in s.
IndexOf(s, p) ==
  LET hits == {i \in 1..(Len(s) - Len(p) + 1) : SubSeq(s, i, i + Len(p) - 1) = p}
  IN  IF hits = {} THEN 0 ELSE CHOOSE i \in hits : \A j \in hits : i <= j

\* String.prototype.replace(p, r) with a string pattern: the first
\* occurrence only; s itself when p does not occur.
Replace(s, p, r) ==
  LET i == IndexOf(s, p)
  IN  IF i = 0 THEN s
      ELSE SubSeq(s, 1, i - 1) \o r \o SubSeq(s, i + Len(p), Len(s))

\* String.prototype.trim
RECURSIVE TrimStart(_)
TrimStart(s) ==
  IF s # <<>> /\ Head(s) \in WhiteSpace THEN TrimStart(Tail(s)) ELSE s

RECURSIVE TrimEnd(_)
TrimEnd(s) ==
  IF s # <<>> /\ s[Len(s)] \in WhiteSpace
  THEN TrimEnd(SubSeq(s, 1, Len(s) - 1))
  ELSE s

Trim(s) == TrimEnd(TrimStart(s))

\* String.prototype.split(c) for a one-character separator: always at
\* least one piece, empty pieces kept.
RECURSIVE Split(_, _)
Split(s, c) ==
  LET i == IndexOf(s, <<c>>)
  IN  IF i = 0 THEN <<s>>
      ELSE <<SubSeq(s, 1, i - 1)>> \o Split(SubSeq(s, i + 1, Len(s)), c)

\* Array.prototype.join
RECURSIVE Join(_, _)
Join(parts, sep) ==
  IF parts = <<>> THEN <<>>
  ELSE IF Len(parts) = 1 THEN parts[1]
  ELSE parts[1] \o sep \o Join(Tail(parts), sep)

\* Array.prototype.filter / map over a sequence
RECURSIVE FilterNonEmpty(_)
FilterNonEmpty(parts) ==
  IF parts = <<>> THEN <<>>
  ELSE IF Head(parts) = <<>> THEN FilterNonEmpty(Tail(parts))
  ELSE <<Head(parts)>> \o FilterNonEmpty(Tail(parts))

\* path.basename (POSIX): trailing slashes dropped, then what follows the
\* last slash.
RECURSIVE StripTrailingSlashes(_)
StripTrailingSlashes(s) ==
  IF Len(s) > 1 /\ s[Len(s)] = "/"
  THEN StripTrailingSlashes(SubSeq(s, 1, Len(s) - 1))
  ELSE s

Basename(p) ==
  LET q == StripTrailingSlashes(p)
      parts == Split(q, "/")
  IN  parts[Len(parts)]

(***************************************************************************)
(* parseInt(string) without a radix: leading white space is skipped, one   *)
(* sign is read, a 0x / 0X prefix selects base 16, then the longest run of *)
(* digits is read and whatever follows is ignored; no digit gives NaN.     *)
(***************************************************************************)
NaN == [isNaN |-> TRUE, value |-> 0]

Num(n) == [isNaN |-> FALSE, value |-> n]

RECURSIVE DigitRun(_, _, _)
DigitRun(s, radix, acc) ==
  IF s # <<>> /\ (IF radix = 16 THEN IsHexDigit(Head(s)) ELSE IsDigit(Head(s)))
  THEN DigitRun(Tail(s), radix, acc * radix + HexVal(Head(s)))
  ELSE acc

parseInt(str) ==
  LET t      == TrimStart(str)
      neg    == t # <<>> /\ Head(t) = "-"
      signed == t # <<>> /\ Head(t) \in {"-", "+"}
      u      == IF signed THEN Tail(t) ELSE t
      hex    == StartsWith(u, <<"0", "x">>) \/ StartsWith(u, <<"0", "X">>)
      v      == IF hex THEN SliceFrom(u, 2) ELSE u
      radix  == IF hex THEN 16 ELSE 10
      has    == v # <<>> /\ (IF hex THEN IsHexDigit(Head(v)) ELSE IsDigit(Head(v)))
      mag    == DigitRun(v, radix, 0)
  IN  IF has THEN Num(IF neg THEN 0 - mag ELSE mag) ELSE NaN


(***************************************************************************)
(* Buffer.from(text, 'hex') and Buffer.prototype.toString('base64').       *)
(***************************************************************************)

\* /^[0-9a-fA-F]+$/.test(s)
IsPureHex(s) == s # <<>> /\ \A i \in DOMAIN s : IsHexDigit(s[i])

\* Buffer.from(s, 'hex'): one byte per complete pair of hexadecimal digits,
\* stopping at the first pair that is not one; a trailing single digit is
\* dropped.
RECURSIVE HexDecode(_)
HexDecode(s) ==
  IF Len(s) >= 2 /\ IsHexDigit(s[1]) /\ IsHexDigit(s[2])
  THEN <<HexVal(s[1]) * 16 + HexVal(s[2])>> \o HexDecode(SliceFrom(s, 2))
  ELSE <<>>

Base64Alphabet ==
  <<"A", "B", "C", "D", "E", "F", "G", "H", "I", "J", "K", "L", "M",
     "N", "O", "P", "Q", "R", "S", "T", "U", "V", "W", "X", "Y", "Z",
     "a", "b", "c", "d", "e", "f", "g", "h", "i", "j", "k", "l", "m",
     "n", "o", "p", "q", "r", "s", "t", "u", "v", "w", "x", "y", "z",
     "0", "1", "2", "3", "4", "5", "6", "7", "8", "9", "+", "/">>

B64(n) == Base64Alphabet[n + 1]

\* Buffer.prototype.toString('base64'): three bytes to four characters,
\* the last group padded with "=".
RECURSIVE Base64Encode(_)
Base64Encode(b) ==
  IF b = <<>> THEN <<>>
  ELSE IF Len(b) = 1
  THEN <<B64(b[1] \div 4), B64((b[1] % 4) * 16), "=", "=">>
  ELSE IF Len(b) = 2
  THEN <<B64(b[1] \div 4), B64((b[1] % 4) * 16 + b[2] \div 16),
         B64((b[2] % 16) * 4), "=">>
  ELSE <<B64(b[1] \div 4), B64((b[1] % 4) * 16 + b[2] \div 16),
         B64((b[2] % 16) * 4 + b[3] \div 64), B64(b[3] % 64)>>
       \o Base64Encode(SliceFrom(b, 3))

(***************************************************************************)
(* Literals of main.js.                                                    *)
(***************************************************************************)
Slash == <<"/">>

DefaultBucketRoot == <<"a", "r", "t", "i", "f", "a", "c", "t", "s", "/">>

QrFileName == <<"q", "r", ".", "p", "n", "g">>

TmpQrFile == <<".", "/", "s", "3", "-", "u", "p", "l", "o", "a", "d", "-", "a", "c", "t", "i", "o", "n", "-", "q", "r", ".", "p", "n", "g">>

UrlScheme == <<"h", "t", "t", "p", "s", ":", "/", "/">>

S3Infix == <<".", "s", "3", ".">>

AwsSuffix == <<".", "a", "m", "a", "z", "o", "n", "a", "w", "s", ".", "c", "o", "m", "/">>

SupportedChecksumAlgorithms == {"CRC32", "CRC32C", "CRC64NVME", "SHA1", "SHA256"}

ExpireError == <<"\"expire\" input should be a number between 0 and 604800.">>

QrWidthError == <<"\"qr-width\" input should be a number between 100 and 1000.">>

UnsupportedChecksumError(alg) == <<"Unsupported checksum algorithm: ", alg>>

\* Errors raised by the collaborators (file system, S3 client, presigner,
\* QR encoder); main.js passes them on unchanged.
ReadFileError == <<"ENOENT: no such file or directory">>

PutObjectError == <<"putObject failed">>

SignError == <<"getSignedUrl failed">>

QrEncodeError == <<"qr.toFile failed">>

UnlinkError == <<"unlinkSync failed">>

NoError == <<>>

(***************************************************************************)
(* The pure parts of run(input), one operator per block of the function.   *)
(***************************************************************************)

\* main.js 75: isNaN(expire) | expire < 0 | 604800 < expire
ExpireInvalid(e) == e.isNaN \/ e.value < 0 \/ 604800 < e.value

\* main.js 80: !qrWidth | qrWidth < 100 | 1000 < qrWidth
QrWidthInvalid(w) == w.isNaN \/ w.value = 0 \/ w.value < 100 \/ 1000 < w.value

\* NormalizeDir with the test of line 89 / 101 forgotten: the slash is
\* appended whatever the segment ends in.
NormalizeDirAlwaysAppending(d) ==
  (IF StartsWith(d, Slash) THEN SliceFrom(d, 1) ELSE d) \o Slash

\* main.js 86-91 and 98-103: the treatment of a non-empty path-like input.
NormalizeDir(d) ==
  LET d1 == IF StartsWith(d, Slash) THEN SliceFrom(d, 1) ELSE d
  IN  IF d1 # <<>> /\ ~EndsWith(d1, Slash) THEN d1 \o Slash ELSE d1

\* main.js 84-94
BucketRootOf(in) ==
  IF in.bucketRoot # <<>> THEN NormalizeDir(in.bucketRoot) ELSE DefaultBucketRoot

\* main.js 96-106; rand is what getRandomStr returned.
DestinationDirOf(in, rand) ==
  IF in.destinationDir # <<>> THEN NormalizeDir(in.destinationDir)
  ELSE rand \o Slash

\* main.js 108
FileKeyOf(in, root, dir) == root \o dir \o Basename(in.filePath)

\* main.js 110-115
AclOf(in) == IF in.public = "true" THEN "public-read" ELSE "private"

\* main.js 124-127: const [Key, Value] = pair.split('='), so Key is the
\* first piece and Value the second piece (undefined when there is none).
ParsePair(pair) ==
  LET pieces == Split(pair, "=")
      Key    == pieces[1]
      Value  == IF Len(pieces) >= 2 THEN pieces[2] ELSE <<>>
  IN  [Key |-> Trim(Key), Value |-> Trim(Value)]

\* main.js 120-127
ParseTags(tags) ==
  LET pairs   == Split(tags, ",")
      trimmed == [i \in DOMAIN pairs |-> Trim(pairs[i])]
      kept    == FilterNonEmpty(trimmed)
  IN  [i \in DOMAIN kept |-> ParsePair(kept[i])]

\* main.js 140
TaggingString(tagging) ==
  Join([i \in DOMAIN tagging |-> tagging[i].Key \o <<"=">> \o tagging[i].Value],
       <<"&">>)

\* ChecksumValueOf without the hexadecimal conversion of lines 154-157.
ChecksumValueUnconverted(checksum) == checksum

\* main.js 153-157
ChecksumValueOf(checksum) ==
  IF IsPureHex(checksum) THEN Base64Encode(HexDecode(checksum)) ELSE checksum

\* main.js 158-174: the field the switch assigns.
ChecksumFieldOf(alg) ==
  CASE alg = "CRC32"     -> "ChecksumCRC32"
    [] alg = "CRC32C"    -> "ChecksumCRC32C"
    [] alg = "CRC64NVME" -> "ChecksumCRC64NVME"
    [] alg = "SHA1"      -> "ChecksumSHA1"
    [] alg = "SHA256"    -> "ChecksumSHA256"

\* main.js 130-137
BaseParams(in, key) ==
  [Bucket             |-> in.awsBucket,
   Key                |-> key,
   ContentType        |-> in.contentType,
   ContentDisposition |-> IF in.contentDisposition # "" THEN in.contentDisposition
                          ELSE "inline",
   ACL                |-> AclOf(in)]

\* main.js 139-141
WithTagging(in, p) ==
  IF in.tags # <<>> THEN p @@ ("Tagging" :> TaggingString(ParseTags(in.tags)))
  ELSE p

\* main.js 144-176, for an algorithm that passed the check of line 145.
WithChecksum(in, p) ==
  IF in.checksumAlgorithm = "" THEN p
  ELSE LET p1 == p @@ ("ChecksumAlgorithm" :> in.checksumAlgorithm)
       IN  IF in.checksum # <<>>
           THEN p1 @@ (ChecksumFieldOf(in.checksumAlgorithm)
                         :> ChecksumValueOf(in.checksum))
           ELSE p1

\* main.js 145
ChecksumAlgorithmRejected(in) ==
  in.checksumAlgorithm # "" /\ in.checksumAlgorithm \notin SupportedChecksumAlgorithms

\* main.js 183 and 219: https://<bucket>.s3.<region>.amazonaws.com/<key>
S3Url(in, key) ==
  UrlScheme \o in.awsBucket \o S3Infix \o in.awsRegion \o AwsSuffix \o key

\* main.js 185, 195, 221: the pattern of the replace calls.
HostAndRoot(in, root) ==
  in.awsBucket \o S3Infix \o in.awsRegion \o AwsSuffix \o root

\* main.js 184-186, 194-196, 220-222
RewriteWith(url, in, root, domain) ==
  IF domain # <<>> THEN Replace(url, HostAndRoot(in, root), domain \o Slash)
  ELSE url

\* main.js 184 / 194: the domain input the file URL is rewritten with.
FileUrlDomain(in) ==
  IF in.public = "true" THEN in.alternativeDomainPublic
  ELSE in.alternativeDomainPrivate

\* QrUrlDomain choosing by the file's visibility, as line 184 / 194 does
\* for the file URL.
QrUrlDomainByVisibility(in) == FileUrlDomain(in)

\* main.js 220: the domain input the QR URL is rewritten with.
QrUrlDomain(in) == in.alternativeDomainPublic

\* SignRequest with the expiresIn option of line 192 left out: the
\* presigner then signs for its default of 900 seconds.
SignRequestDefaultExpiry(in, key, exp) ==
  [op |-> "getSignedUrl", command |-> "GetObject", Bucket |-> in.awsBucket,
   Key |-> key, expiresIn |-> 900]

\* main.js 188-193: the request handed to getSignedUrl.
SignRequest(in, key, exp) ==
  [op |-> "getSignedUrl", command |-> "GetObject", Bucket |-> in.awsBucket,
   Key |-> key, expiresIn |-> exp.value]

\* main.js 205
QrKeyOf(root, dir) == root \o dir \o QrFileName

\* QrParams with the file's ACL in place of the literal of line 215.
QrParamsWithFileAcl(in, key) ==
  [Bucket |-> in.awsBucket, Key |-> key, ContentType |-> "image/png",
   ACL |-> AclOf(in)]

\* main.js 210-216
QrParams(in, key) ==
  [Bucket |-> in.awsBucket, Key |-> key, ContentType |-> "image/png",
   ACL |-> "public-read"]

(***************************************************************************)
(* Collaborators: the random generator, the presigner.                     *)
(***************************************************************************)

\* Bounds of the model: the length of the random directory name (main.js
\* asks for 32 characters) and the number of characters of the alphabet of
\* getRandomStr the model draws from.
RandLen == 2

RandChars == 2

\* main.js 236: the alphabet of getRandomStr.
RandAlphabet ==
  <<"a", "b", "c", "d", "e", "f", "g", "h", "i", "j", "k", "l", "m", "n", "o", "p", "q", "r", "s", "t", "u", "v", "w", "x", "y", "z", 
    "A", "B", "C", "D", "E", "F", "G", "H", "J", "K", "L", "M", "N", "O", "P", "Q", "R", "S", "T", "U", "V", "W", "X", "Y", "Z", 
    "0", "1", "2", "3", "4", "5", "6", "7", "8", "9">>

RECURSIVE StringsOver(_, _)
StringsOver(chars, n) ==
  IF n = 0 THEN {<<>>}
  ELSE {<<c>> \o t : c \in chars, t \in StringsOver(chars, n - 1)}

\* main.js 235-242: every string getRandomStr(length) can return, over the
\* first RandChars characters of its alphabet.
getRandomStr(length) ==
  StringsOver({RandAlphabet[i] : i \in 1..RandChars}, length)

SignedQuery == <<"?", "X", "-", "A", "m", "z", "-", "S", "i", "g", "n", "a", "t", "u", "r", "e", "=", "s">>

\* main.js 188-193: the URLs getSignedUrl may answer with for a get-object
\* of (bucket, key): virtual-hosted style (the client's default) or path
\* style, each followed by the signature query.
SignedUrls(in, key) ==
  {S3Url(in, key) \o SignedQuery,
   UrlScheme \o <<"s", "3", ".">> \o in.awsRegion \o AwsSuffix \o in.awsBucket \o Slash
     \o key \o SignedQuery}

(***************************************************************************)
(* The inputs of the explored runs.                                        *)
(***************************************************************************)

\* expire
ExpireInputs ==
  {<<>>,
   <<"a", "b", "c">>,
   <<"-", "1">>,
   <<"0">>,
   <<"1", "8", "0">>,
   <<"6", "0", "4", "8", "0", "0">>,
   <<"6", "0", "4", "8", "0", "1">>,
   <<"1", "8", "0", "s">>,
   <<" ", "4", "2">>}

\* qr-width
QrWidthInputs ==
  {<<>>,
   <<"w", "i", "d", "e">>,
   <<"0">>,
   <<"9", "9">>,
   <<"1", "0", "0">>,
   <<"1", "2", "0">>,
   <<"1", "0", "0", "0">>,
   <<"1", "0", "0", "1">>,
   <<"1", "2", "0", "p", "x">>}

\* bucket-root
BucketRootInputs ==
  {<<>>,
   <<"/", "a", "/", "b">>,
   <<"a", "/">>,
   <<"/">>,
   <<"a", "/", "/">>,
   <<"/", "/", "a">>}

\* destination-dir
DestinationDirInputs ==
  {<<>>,
   <<"x">>,
   <<"/", "x", "/">>,
   <<"/">>,
   <<"x", "/", "/">>,
   <<"x", "/", "y">>}

\* tags
TagInputs ==
  {<<>>,
   <<"A", "=", "1", ",", " ", "B", "=", "2", ",", ",", "C", "=">>,
   <<"A", "=", "b", "=", "c">>,
   <<"K">>,
   <<" ", ",", " ">>,
   <<"=", "v">>,
   <<"a", " ", "=", " ", "b", " ", ",", "c", "=", "d">>}

\* checksum
ChecksumInputs ==
  {<<>>,
   <<"d", "e", "a", "d", "b", "e", "e", "f">>,
   <<"D", "E", "A", "D", "B", "E", "E", "F">>,
   <<"3", "q", "2", "+", "7", "w", "=", "=">>,
   <<"a", "b", "c">>,
   <<"0", "a">>,
   <<"f">>,
   <<"x", "y", "z">>}

\* file-path
FilePathInputs ==
  {<<".", "/", "y", ".", "t", "x", "t">>,
   <<"d", "/", "q", "r", ".", "p", "n", "g">>}

AlgorithmInputs ==
  {"", "CRC32", "CRC32C", "CRC64NVME", "SHA1", "SHA256", "MD5", "sha256"}

Flags == {"true", "false"}

PublicDomain == <<"c", "d", "n", ".", "e", "x", "a", "m", "p", "l", "e", ".", "c", "o", "m">>

PrivateDomain == <<"p", ".", "i", "o">>

\* The configuration every family of inputs below varies: the spec's
\* example of bucket b, region r and key artifacts/x/y.txt.
BaseInput ==
  [awsBucket |-> <<"b">>, awsRegion |-> <<"r">>, filePath |-> <<".", "/", "y", ".", "t", "x", "t">>,
   destinationDir |-> <<"x">>, bucketRoot |-> <<>>, outputFileUrl |-> "true",
   contentType |-> "text/plain", contentDisposition |-> "",
   outputQrUrl |-> "true", qrWidth |-> <<"1", "2", "0">>, public |-> "false",
   expire |-> <<"1", "8", "0">>, alternativeDomainPublic |-> <<>>,
   alternativeDomainPrivate |-> <<>>, tags |-> <<>>,
   checksumAlgorithm |-> "", checksum |-> <<>>]

ValidationInputs ==
  {[BaseInput EXCEPT !.expire = e, !.qrWidth = w, !.checksumAlgorithm = a,
                     !.outputQrUrl = q, !.public = pb] :
     e \in ExpireInputs, w \in QrWidthInputs, a \in {"", "SHA256", "MD5"},
     q \in Flags, pb \in Flags}

KeyInputs ==
  {[BaseInput EXCEPT !.bucketRoot = r, !.destinationDir = d, !.filePath = f,
                     !.public = pb, !.outputQrUrl = q,
                     !.alternativeDomainPublic = ap] :
     r \in BucketRootInputs, d \in DestinationDirInputs, f \in FilePathInputs,
     pb \in Flags, q \in Flags, ap \in {<<>>, PublicDomain}}

TagAndChecksumInputs ==
  {[BaseInput EXCEPT !.tags = t, !.checksumAlgorithm = a, !.checksum = c,
                     !.outputQrUrl = "false"] :
     t \in TagInputs, a \in AlgorithmInputs, c \in ChecksumInputs}

UrlInputs ==
  {[BaseInput EXCEPT !.public = pb, !.outputFileUrl = f, !.outputQrUrl = q,
                     !.alternativeDomainPublic = ap,
                     !.alternativeDomainPrivate = av, !.bucketRoot = r,
                     !.contentDisposition = cd] :
     pb \in Flags, f \in Flags, q \in Flags, ap \in {<<>>, PublicDomain},
     av \in {<<>>, PrivateDomain}, r \in {<<>>, <<"/", "a", "/", "b">>},
     cd \in {"", "attachment"}}

Inputs == ValidationInputs \cup KeyInputs \cup TagAndChecksumInputs \cup UrlInputs

(***************************************************************************)
(* The state of one invocation: the locals of run, the promise's position  *)
(* (pc), the calls made to the collaborators, in order, and whether the    *)
(* temporary QR file exists.                                               *)
(***************************************************************************)
VARIABLES input, pc, expire, qrWidth, bucketRoot, destinationDir, fileKey,
          params, fileUrl, qrKey, qrUrl, error, calls, tmpFile

locals == <<expire, qrWidth, bucketRoot, destinationDir, fileKey, params,
            fileUrl, qrKey, qrUrl>>

vars == <<input, pc, expire, qrWidth, bucketRoot, destinationDir, fileKey,
          params, fileUrl, qrKey, qrUrl, error, calls, tmpFile>>

ResultSuccess == <<"s", "u", "c", "c", "e", "s", "s">>

ResultFailure == <<"f", "a", "i", "l", "u", "r", "e">>

OutFileUrl == "file-url"

OutQrUrl == "qr-url"

OutResult == "result"

\* core.setOutput(name, value)
SetOutput(name, value) == [op |-> "setOutput", name |-> name, value |-> value]

\* core.setFailed(message)
SetFailed(message) == [op |-> "setFailed", message |-> message]

\* s3.putObject(p) and how it ended
PutObject(p, ok) == [op |-> "putObject", params |-> p, ok |-> ok]

\* fs.readFileSync(path) and how it ended
ReadFile(path, ok) == [op |-> "readFileSync", path |-> path, ok |-> ok]

\* fs.unlinkSync(path) and how it ended
Unlink(path, ok) == [op |-> "unlinkSync", path |-> path, ok |-> ok]

\* qr.toFile(path, text, {width}) and how it ended
QrToFile(path, text, width, ok) ==
  [op |-> "qr.toFile", path |-> path, text |-> text, width |-> width, ok |-> ok]

Init ==
  /\ input \in Inputs
  /\ pc = "validate"
  /\ expire = Undefined
  /\ qrWidth = Undefined
  /\ bucketRoot = Undefined
  /\ destinationDir = Undefined
  /\ fileKey = Undefined
  /\ params = Undefined
  /\ fileUrl = Undefined
  /\ qrKey = Undefined
  /\ qrUrl = Undefined
  /\ error = NoError
  /\ calls = <<>>
  /\ tmpFile = FALSE

\* throw: the promise of run rejects with e.
Throw(e) == pc' = "rejected" /\ error' = e

(***************************************************************************)
(* run(input), one action per stretch of code between two points where it *)
(* can stop: a throw, an await, a return.                                  *)
(***************************************************************************)

\* main.js 74-82: both numeric inputs are parsed and checked.
Validate ==
  /\ pc = "validate"
  /\ LET e == parseInt(input.expire)
         w == parseInt(input.qrWidth)
     IN  IF ExpireInvalid(e)
         THEN /\ Throw(ExpireError)
              /\ expire' = e
              /\ UNCHANGED qrWidth
         ELSE /\ expire' = e
              /\ qrWidth' = w
              /\ IF QrWidthInvalid(w) THEN Throw(QrWidthError)
                 ELSE pc' = "prepare" /\ UNCHANGED error
  /\ UNCHANGED <<input, bucketRoot, destinationDir, fileKey, params, fileUrl,
                 qrKey, qrUrl, calls, tmpFile>>

\* main.js 84-176: the key, the ACL, the tags and the request are derived;
\* the file is read while the request is built (line 135), before the
\* checksum algorithm is checked (line 145).
Prepare ==
  /\ pc = "prepare"
  /\ \E rand \in (IF input.destinationDir = <<>> THEN getRandomStr(RandLen)
                  ELSE {<<>>}),
        readable \in BOOLEAN :
       LET root == BucketRootOf(input)
           dir  == DestinationDirOf(input, rand)
           key  == FileKeyOf(input, root, dir)
       IN  /\ bucketRoot' = root
           /\ destinationDir' = dir
           /\ fileKey' = key
           /\ calls' = Append(calls, ReadFile(input.filePath, readable))
           /\ IF ~readable
              THEN Throw(ReadFileError) /\ UNCHANGED params
              ELSE IF ChecksumAlgorithmRejected(input)
              THEN /\ Throw(UnsupportedChecksumError(input.checksumAlgorithm))
                   /\ params' = WithTagging(input, BaseParams(input, key))
              ELSE /\ params' = WithChecksum(input,
                                   WithTagging(input, BaseParams(input, key)))
                   /\ pc' = "putMain"
                   /\ UNCHANGED error
  /\ UNCHANGED <<input, expire, qrWidth, fileUrl, qrKey, qrUrl, tmpFile>>

\* PutMain with the rejection of putObject swallowed: the run goes on to
\* resolve the URL after a failed upload.
PutMainIgnoringFailure ==
  /\ pc = "putMain"
  /\ \E ok \in BOOLEAN :
       /\ calls' = Append(calls, PutObject(params, ok))
       /\ pc' = "resolveUrl"
       /\ UNCHANGED error
  /\ UNCHANGED <<input, locals, tmpFile>>

\* main.js 178: await s3.putObject(params)
PutMain ==
  /\ pc = "putMain"
  /\ \E ok \in BOOLEAN :
       /\ calls' = Append(calls, PutObject(params, ok))
       /\ IF ok THEN pc' = "resolveUrl" /\ UNCHANGED error
          ELSE Throw(PutObjectError)
  /\ UNCHANGED <<input, locals, tmpFile>>

\* main.js 182-183: the URL of a public file.
ResolvePublic ==
  /\ fileUrl' = S3Url(input, fileKey)
  /\ pc' = "rewriteUrl"
  /\ UNCHANGED <<calls, error>>

\* main.js 187-193: the URL of a private file, signed by the presigner;
\* the call is recorded with its outcome and the URL it answered.
ResolvePrivate ==
  \E ok \in BOOLEAN, signed \in SignedUrls(input, fileKey) :
    /\ calls' = Append(calls, SignRequest(input, fileKey, expire)
                                @@ ("ok" :> ok)
                                @@ ("url" :> IF ok THEN signed ELSE Undefined))
    /\ IF ok
       THEN fileUrl' = signed /\ pc' = "rewriteUrl" /\ UNCHANGED error
       ELSE Throw(SignError) /\ UNCHANGED fileUrl

\* main.js 180-183, 187-193
ResolveUrl ==
  /\ pc = "resolveUrl"
  /\ IF input.outputFileUrl = "true" \/ input.outputQrUrl = "true"
     THEN IF input.public = "true" THEN ResolvePublic ELSE ResolvePrivate
     ELSE pc' = "outputFileUrl" /\ UNCHANGED <<fileUrl, calls, error>>
  /\ UNCHANGED <<input, expire, qrWidth, bucketRoot, destinationDir, fileKey,
                 params, qrKey, qrUrl, tmpFile>>

\* main.js 184-186 and 194-196: the alternative domain of the file's
\* visibility, when given, replaces host and bucket root.
RewriteFileUrl ==
  /\ pc = "rewriteUrl"
  /\ fileUrl' = RewriteWith(fileUrl, input, bucketRoot, FileUrlDomain(input))
  /\ pc' = "outputFileUrl"
  /\ UNCHANGED <<input, expire, qrWidth, bucketRoot, destinationDir, fileKey,
                 params, qrKey, qrUrl, error, calls, tmpFile>>

\* main.js 198-203: the file-url output, then the early return when no QR
\* code is asked for.
OutputFileUrl ==
  /\ pc = "outputFileUrl"
  /\ calls' = IF input.outputFileUrl = "true"
              THEN Append(calls, SetOutput(OutFileUrl, fileUrl))
              ELSE calls
  /\ pc' = IF input.outputQrUrl # "true" THEN "resolved" ELSE "qrRender"
  /\ UNCHANGED <<input, locals, error, tmpFile>>

\* main.js 205-208: await qr.toFile(tmpQrFile, fileUrl, { width: qrWidth });
\* a failed write may or may not leave a file behind.
QrRender ==
  /\ pc = "qrRender"
  /\ qrKey' = QrKeyOf(bucketRoot, destinationDir)
  /\ \E ok \in BOOLEAN, left \in BOOLEAN :
       /\ calls' = Append(calls, QrToFile(TmpQrFile, fileUrl, qrWidth.value, ok))
       /\ IF ok
          THEN tmpFile' = TRUE /\ pc' = "qrPut" /\ UNCHANGED error
          ELSE tmpFile' = (tmpFile \/ left) /\ Throw(QrEncodeError)
  /\ UNCHANGED <<input, expire, qrWidth, bucketRoot, destinationDir, fileKey,
                 params, fileUrl, qrUrl>>

\* main.js 210-216: the image is read back and uploaded.
QrPut ==
  /\ pc = "qrPut"
  /\ IF ~tmpFile
     THEN /\ calls' = Append(calls, ReadFile(TmpQrFile, FALSE))
          /\ Throw(ReadFileError)
     ELSE \E ok \in BOOLEAN :
            /\ calls' = calls \o <<ReadFile(TmpQrFile, TRUE),
                                   PutObject(QrParams(input, qrKey), ok)>>
            /\ IF ok THEN pc' = "qrUnlink" /\ UNCHANGED error
               ELSE Throw(PutObjectError)
  /\ UNCHANGED <<input, locals, tmpFile>>

\* main.js 217: fs.unlinkSync(tmpQrFile)
QrUnlink ==
  /\ pc = "qrUnlink"
  /\ \E ok \in BOOLEAN :
       /\ calls' = Append(calls, Unlink(TmpQrFile, ok))
       /\ IF ok THEN tmpFile' = FALSE /\ pc' = "qrOutput" /\ UNCHANGED error
          ELSE Throw(UnlinkError) /\ UNCHANGED tmpFile
  /\ UNCHANGED <<input, locals>>

\* main.js 219-224: the qr-url output; run returns.
QrOutput ==
  /\ pc = "qrOutput"
  /\ qrUrl' = RewriteWith(S3Url(input, qrKey), input, bucketRoot,
                          QrUrlDomain(input))
  /\ calls' = Append(calls, SetOutput(OutQrUrl, qrUrl'))
  /\ pc' = "resolved"
  /\ UNCHANGED <<input, expire, qrWidth, bucketRoot, destinationDir, fileKey,
                 params, fileUrl, qrKey, error, tmpFile>>

\* main.js 227-229: .then
Then ==
  /\ pc = "resolved"
  /\ calls' = Append(calls, SetOutput(OutResult, ResultSuccess))
  /\ pc' = "done"
  /\ UNCHANGED <<input, locals, error, tmpFile>>

\* Catch with the setFailed call of line 232 missing.
CatchWithoutSetFailed ==
  /\ pc = "rejected"
  /\ calls' = Append(calls, SetOutput(OutResult, ResultFailure))
  /\ pc' = "done"
  /\ UNCHANGED <<input, locals, error, tmpFile>>

\* main.js 230-233: .catch
Catch ==
  /\ pc = "rejected"
  /\ calls' = calls \o <<SetOutput(OutResult, ResultFailure), SetFailed(error)>>
  /\ pc' = "done"
  /\ UNCHANGED <<input, locals, error, tmpFile>>

Next ==
  \/ Validate
  \/ Prepare
  \/ PutMain
  \/ ResolveUrl
  \/ RewriteFileUrl
  \/ OutputFileUrl
  \/ QrRender
  \/ QrPut
  \/ QrUnlink
  \/ QrOutput
  \/ Then
  \/ Catch

Spec == Init /\ [][Next]_vars

(***************************************************************************)
(* What an observer of the collaborators sees of a run.                    *)
(***************************************************************************)

CallsOf(op) == SelectSeq(calls, LAMBDA c : c.op = op)

\* The put-object requests issued so far (main.js 178 and 210).
Puts == CallsOf("putObject")

\* The signed-URL requests issued so far (main.js 188).
Signs == CallsOf("getSignedUrl")

\* The values given to core.setOutput(name, ...) so far.
OutputsNamed(name) ==
  SelectSeq(calls, LAMBDA c : c.op = "setOutput" /\ c.name = name)

\* core.setFailed calls so far (main.js 232).
Failures == CallsOf("setFailed")

\* Some collaborator call of the run ended in an exception.
SomeCallFailed ==
  \E i \in DOMAIN calls : "ok" \in DOMAIN calls[i] /\ ~calls[i].ok

(***************************************************************************)
(* C1.  Configuration errors and network I/O.                              *)
(***************************************************************************)

\* A decimal integer, read independently of parseInt: optional white space
\* around an optional sign and at least one digit, nothing else.
RECURSIVE DecimalValue(_)
DecimalValue(ds) ==
  IF ds = <<>> THEN 0
  ELSE DecimalValue(SubSeq(ds, 1, Len(ds) - 1)) * 10
       + ((CHOOSE i \in DOMAIN Digits : Digits[i] = ds[Len(ds)]) - 1)

Unsigned(s) ==
  LET t == Trim(s)
  IN  IF t # <<>> /\ t[1] \in {"-", "+"} THEN Tail(t) ELSE t

IsNumeric(s) ==
  Unsigned(s) # <<>> /\ \A i \in DOMAIN Unsigned(s) : IsDigit(Unsigned(s)[i])

NumericValue(s) ==
  IF Trim(s)[1] = "-" THEN 0 - DecimalValue(Unsigned(s))
  ELSE DecimalValue(Unsigned(s))

ExpireRejectable ==
  \/ ~IsNumeric(input.expire)
  \/ NumericValue(input.expire) < 0
  \/ NumericValue(input.expire) > 604800

QrWidthRejectable ==
  \/ ~IsNumeric(input.qrWidth)
  \/ NumericValue(input.qrWidth) = 0
  \/ NumericValue(input.qrWidth) < 100
  \/ NumericValue(input.qrWidth) > 1000

AlgorithmRejectable ==
  /\ input.checksumAlgorithm # ""
  /\ input.checksumAlgorithm \notin {"CRC32", "CRC32C", "CRC64NVME", "SHA1", "SHA256"}

\* C1: an input whose expire is non-numeric or outside [0, 604800], whose
\* qr-width is non-numeric, zero or outside [100, 1000], or whose non-empty
\* checksum algorithm is unsupported, never leads to a put-object or
\* signed-URL request, and its run ends in failure.
C1_InvalidConfigNeverReachesNetwork ==
  (ExpireRejectable \/ QrWidthRejectable \/ AlgorithmRejectable)
    => /\ Puts = <<>>
       /\ Signs = <<>>
       /\ pc = "done" => error # NoError

\* C1, the part the code keeps: whenever one of the three validation errors
\* has been raised, no put-object or signed-URL request was issued.
C1_RaisedValidationErrorsPrecedeNetwork ==
  (error \in {ExpireError, QrWidthError}
     \/ (error # NoError /\ error[1] = "Unsupported checksum algorithm: "))
    => Puts = <<>> /\ Signs = <<>>

(***************************************************************************)
(* C2.  The temporary QR file.                                             *)
(***************************************************************************)

QrFileWritten ==
  \E i \in DOMAIN calls : calls[i].op = "qr.toFile" /\ calls[i].ok

\* C2: once a run with QR generation enabled that wrote the temporary QR
\* file has completed, the file no longer exists, whether the QR upload
\* succeeded or failed.
C2_TmpFileGoneAfterRun ==
  (pc = "done" /\ input.outputQrUrl = "true" /\ QrFileWritten) => ~tmpFile

\* C2, restricted to where the code does remove the file: the runs whose QR
\* upload and unlink both succeeded.
C2_TmpFileGoneAfterSuccessfulQrUpload ==
  (pc = "done" /\ QrFileWritten /\ error = NoError) => ~tmpFile

(***************************************************************************)
(* C3.  The overall result marker.                                         *)
(***************************************************************************)

\* Evidence, from the inputs and the collaborators' outcomes alone, that a
\* step of run threw.
RunThrew ==
  \/ ExpireInvalid(parseInt(input.expire))
  \/ QrWidthInvalid(parseInt(input.qrWidth))
  \/ SomeCallFailed
  \/ (ChecksumAlgorithmRejected(input) /\ CallsOf("readFileSync") # <<>>)

\* C3: a finished invocation has set result exactly once; it is "failure",
\* with the exception's message given to setFailed, exactly when a step of
\* run threw, and "success", with nothing given to setFailed, exactly when
\* run completed; before the end neither is set.
C3_ExactlyOneResultMarker ==
  LET results == OutputsNamed(OutResult)
  IN  /\ pc # "done" => results = <<>> /\ Failures = <<>>
      /\ pc = "done" =>
           /\ Len(results) = 1
           /\ results[1].value \in {ResultSuccess, ResultFailure}
           /\ results[1].value = ResultFailure <=> RunThrew
           /\ results[1].value = ResultFailure <=> error # NoError
           /\ RunThrew => Failures = <<SetFailed(error)>>
           /\ ~RunThrew => Failures = <<>>

\* C3 witnesses: a run that threw at the QR upload and was reported.
C3_FailureReported ==
  /\ pc = "done"
  /\ error = PutObjectError
  /\ Len(Puts) = 2
  /\ OutputsNamed(OutResult) = <<SetOutput(OutResult, ResultFailure)>>

(***************************************************************************)
(* C5.  The derived object key.                                            *)
(***************************************************************************)

\* The file base name, read off the path: what follows its last slash.
LastSegment(path) ==
  LET slashes == {i \in DOMAIN path : path[i] = "/"}
      last    == IF slashes = {} THEN 0
                 ELSE CHOOSE i \in slashes : \A j \in slashes : j <= i
  IN  SubSeq(path, last + 1, Len(path))

RECURSIVE WithoutTrailingSlashes(_)
WithoutTrailingSlashes(s) ==
  IF s # <<>> /\ s[Len(s)] = "/"
  THEN WithoutTrailingSlashes(SubSeq(s, 1, Len(s) - 1))
  ELSE s

\* A segment as C5 words it: without its leading slash, and ending in
\* exactly one slash.
SegmentWithOneTrailingSlash(x) ==
  WithoutTrailingSlashes(IF x[1] = "/" THEN Tail(x) ELSE x) \o <<"/">>

\* A segment as amended: one leading slash dropped; one slash appended only
\* when what remains is non-empty and does not already end in a slash.
SegmentAsAmended(x) ==
  LET y == IF x[1] = "/" THEN Tail(x) ELSE x
  IN  IF y = <<>> THEN <<>>
      ELSE IF y[Len(y)] = "/" THEN y
      ELSE y \o <<"/">>

\* The characters a generated directory name may hold.
IsGeneratedDir(d) ==
  /\ Len(d) = RandLen + 1
  /\ d[Len(d)] = "/"
  /\ \A i \in 1..RandLen : d[i] \in Range(RandAlphabet)

\* C5 as stated: the key of the upload is the bucket root, the destination
\* directory and the file base name, each directory-like segment without
\* its leading slash and with exactly one trailing slash; an empty
\* bucket-root gives "artifacts/".
C5_KeySegmentsEndInExactlyOneSlash ==
  (Puts # <<>> /\ input.destinationDir # <<>>) =>
    Puts[1].params.Key =
      (IF input.bucketRoot = <<>> THEN <<"a", "r", "t", "i", "f", "a", "c", "t", "s", "/">>
       ELSE SegmentWithOneTrailingSlash(input.bucketRoot))
      \o SegmentWithOneTrailingSlash(input.destinationDir)
      \o LastSegment(input.filePath)

\* C5 as amended: the key of the upload is the bucket root, the destination
\* directory and the file base name, where a non-empty directory-like input
\* loses one leading slash and gains a trailing slash only if what remains
\* is non-empty and has none; an empty bucket-root gives "artifacts/", an
\* empty destination-dir a generated name followed by one slash.
C5_KeyIsRootDirBase ==
  Puts # <<>> =>
    LET key  == Puts[1].params.Key
        root == IF input.bucketRoot = <<>> THEN <<"a", "r", "t", "i", "f", "a", "c", "t", "s", "/">>
                ELSE SegmentAsAmended(input.bucketRoot)
        base == LastSegment(input.filePath)
        dir  == SubSeq(key, Len(root) + 1, Len(key) - Len(base))
    IN  /\ key = root \o dir \o base
        /\ IF input.destinationDir = <<>> THEN IsGeneratedDir(dir)
           ELSE dir = SegmentAsAmended(input.destinationDir)
        /\ input.bucketRoot = <<"/", "a", "/", "b">> => SubSeq(key, 1, 4) = <<"a", "/", "b", "/">>

\* C5 witness: bucket-root "/" and destination-dir "x//" were uploaded
\* under the key "x//y.txt".
C5_SlashOnlyRootUploaded ==
  /\ Puts # <<>>
  /\ input.bucketRoot = <<"/">>
  /\ input.destinationDir = <<"x", "/", "/">>
  /\ Puts[1].params.Key = <<"x", "/", "/", "y", ".", "t", "x", "t">>

(***************************************************************************)
(* C4.  The QR object's upload request.                                    *)
(***************************************************************************)

\* C4: the put-object request of the QR object has ACL public-read and
\* content type image/png whatever the file's visibility, and its key is
\* the main key with the file base name replaced by qr.png: the same bucket
\* root and the same destination directory, generated or not.
C4_QrObjectPublicUnderSamePrefix ==
  Len(Puts) >= 2 =>
    LET main   == Puts[1].params
        qrp    == Puts[2].params
        base   == LastSegment(input.filePath)
        prefix == SubSeq(main.Key, 1, Len(main.Key) - Len(base))
        root   == IF input.bucketRoot = <<>> THEN <<"a", "r", "t", "i", "f", "a", "c", "t", "s", "/">>
                  ELSE SegmentAsAmended(input.bucketRoot)
    IN  /\ qrp.ACL = "public-read"
        /\ qrp.ContentType = "image/png"
        /\ qrp.Bucket = input.awsBucket
        /\ main.Key = prefix \o base
        /\ qrp.Key = prefix \o <<"q", "r", ".", "p", "n", "g">>
        /\ SubSeq(prefix, 1, Len(root)) = root
        /\ input.destinationDir = <<>> =>
             IsGeneratedDir(SubSeq(prefix, Len(root) + 1, Len(prefix)))

\* C4 witness: a private file with no destination-dir given, whose QR
\* object was uploaded.
C4_PrivateFileQrUploaded ==
  /\ Len(Puts) = 2
  /\ Puts[2].ok
  /\ input.public = "false"
  /\ input.destinationDir = <<>>
  /\ Puts[1].params.ACL = "private"

(***************************************************************************)
(* C6.  Tags.                                                              *)
(***************************************************************************)

\* A pair as C6 words it: the key is what precedes the first "=", the value
\* everything after that first "=", both trimmed; no "=" gives an empty
\* value.
PairAtFirstEquals(pair) ==
  LET i == IndexOf(pair, <<"=">>)
  IN  IF i = 0 THEN [Key |-> Trim(pair), Value |-> <<>>]
      ELSE [Key   |-> Trim(SubSeq(pair, 1, i - 1)),
            Value |-> Trim(SubSeq(pair, i + 1, Len(pair)))]

TagsAtFirstEquals(tags) ==
  LET kept == FilterNonEmpty([i \in DOMAIN Split(tags, ",")
                                |-> Trim(Split(tags, ",")[i])])
  IN  [i \in DOMAIN kept |-> PairAtFirstEquals(kept[i])]

\* C6: the Tagging field of the upload is the comma-separated pairs, trimmed,
\* the empty ones dropped, each split at its first "=" into key and the
\* entire remainder, serialized as Key=Value joined by "&" in input order.
C6_TaggingSplitsAtFirstEquals ==
  (Puts # <<>> /\ input.tags # <<>>) =>
    LET t == TagsAtFirstEquals(input.tags)
    IN  Puts[1].params.Tagging =
          Join([i \in DOMAIN t |-> t[i].Key \o <<"=">> \o t[i].Value], <<"&">>)

\* C6, the part the code keeps: the spec's example "A=1, B=2,,C=" is
\* uploaded as A=1&B=2&C=, and an upload without tags has no Tagging field.
C6_TaggingExample ==
  Puts # <<>> =>
    /\ input.tags = <<"A", "=", "1", ",", " ", "B", "=", "2", ",", ",", "C", "=">> => Puts[1].params.Tagging = <<"A", "=", "1", "&", "B", "=", "2", "&", "C", "=">>
    /\ input.tags = <<>> => "Tagging" \notin DOMAIN Puts[1].params

(***************************************************************************)
(* C7.  Resolving the file URL.                                            *)
(***************************************************************************)

\* The integer an expire input configures: the decimal value of its leading
\* digits (every expire that passes validation is non-negative).
RECURSIVE DigitPrefix(_)
DigitPrefix(s) ==
  IF s # <<>> /\ IsDigit(s[1]) THEN <<s[1]>> \o DigitPrefix(Tail(s)) ELSE <<>>

ConfiguredExpire == DecimalValue(DigitPrefix(Unsigned(input.expire)))

\* https://<bucket>.s3.<region>.amazonaws.com/<key>, spelled out.
CanonicalUrl(key) ==
  <<"h", "t", "t", "p", "s", ":", "/", "/">> \o input.awsBucket \o <<".", "s", "3", ".">> \o input.awsRegion
    \o <<".", "a", "m", "a", "z", "o", "n", "a", "w", "s", ".", "c", "o", "m", "/">> \o key

\* The run got past URL resolution with a URL in hand.
FileUrlResolved ==
  \/ pc = "rewriteUrl"
  \/ OutputsNamed(OutFileUrl) # <<>>
  \/ CallsOf("qr.toFile") # <<>>

\* C7: a public file's URL is exactly the canonical virtual-hosted URL of
\* its key and no signing request is issued; a private file's URL comes from
\* exactly one signing request, for a get-object on the uploaded bucket and
\* key, whose expiry is the configured expire; without a URL output asked
\* for, nothing is signed.
C7_UrlResolution ==
  /\ input.public = "true" =>
       /\ Signs = <<>>
       /\ pc = "rewriteUrl" => fileUrl = CanonicalUrl(Puts[1].params.Key)
       /\ (input.alternativeDomainPublic = <<>>) =>
            \A i \in DOMAIN OutputsNamed(OutFileUrl) :
              OutputsNamed(OutFileUrl)[i].value = CanonicalUrl(Puts[1].params.Key)
  /\ input.public # "true" =>
       /\ Len(Signs) <= 1
       /\ FileUrlResolved => Len(Signs) = 1 /\ Signs[1].ok
       /\ pc = "rewriteUrl" => fileUrl = Signs[1].url
       /\ \A i \in DOMAIN Signs :
            /\ Signs[i].command = "GetObject"
            /\ Signs[i].Bucket = input.awsBucket
            /\ Signs[i].Key = Puts[1].params.Key
            /\ Signs[i].expiresIn = ConfiguredExpire
  /\ (input.outputFileUrl # "true" /\ input.outputQrUrl # "true") => Signs = <<>>

\* C7 witness: a private file whose URL was signed once, for 604800 seconds.
C7_PrivateSignedOnce ==
  /\ pc = "done"
  /\ error = NoError
  /\ input.public = "false"
  /\ input.expire = <<"6", "0", "4", "8", "0", "0">>
  /\ Len(Signs) = 1
  /\ Signs[1].expiresIn = 604800

(***************************************************************************)
(* C8.  Alternative domains.                                               *)
(***************************************************************************)

\* result is url with the first occurrence of pat replaced by repl, or url
\* itself when pat does not occur in it.
IsFirstReplaced(result, url, pat, repl) ==
  LET at(i) == i + Len(pat) - 1 <= Len(url) /\ SubSeq(url, i, i + Len(pat) - 1) = pat
  IN  IF \A i \in 1..Len(url) : ~at(i) THEN result = url
      ELSE \E i \in 1..Len(url) :
             /\ at(i)
             /\ \A j \in 1..(i - 1) : ~at(j)
             /\ result = SubSeq(url, 1, i - 1) \o repl
                           \o SubSeq(url, i + Len(pat), Len(url))

\* "<bucket>.s3.<region>.amazonaws.com/<bucketRoot>"
HostRootPattern ==
  input.awsBucket \o <<".", "s", "3", ".">> \o input.awsRegion \o <<".", "a", "m", "a", "z", "o", "n", "a", "w", "s", ".", "c", "o", "m", "/">>
    \o (IF input.bucketRoot = <<>> THEN <<"a", "r", "t", "i", "f", "a", "c", "t", "s", "/">>
        ELSE SegmentAsAmended(input.bucketRoot))

IsRewritten(result, url, domain) ==
  IF domain = <<>> THEN result = url
  ELSE IsFirstReplaced(result, url, HostRootPattern, domain \o <<"/">>)

\* C8: the file-url output is the resolved URL with host and bucket root
\* replaced by the public alternative domain for a public file and by the
\* private one for a private file; the qr-url output is the QR object's
\* canonical URL rewritten with the public alternative domain only; an empty
\* domain or an absent substring leaves the URL as it is.
C8_AlternativeDomainRewrite ==
  /\ \A i \in DOMAIN OutputsNamed(OutFileUrl) :
       IsRewritten(OutputsNamed(OutFileUrl)[i].value,
                   IF input.public = "true" THEN CanonicalUrl(Puts[1].params.Key)
                   ELSE Signs[1].url,
                   IF input.public = "true" THEN input.alternativeDomainPublic
                   ELSE input.alternativeDomainPrivate)
  /\ \A i \in DOMAIN OutputsNamed(OutQrUrl) :
       IsRewritten(OutputsNamed(OutQrUrl)[i].value,
                   CanonicalUrl(Puts[2].params.Key),
                   input.alternativeDomainPublic)
  /\ ( /\ input.public = "true"
       /\ input.bucketRoot = <<>>
       /\ input.destinationDir = <<"x">>
       /\ input.filePath = <<".", "/", "y", ".", "t", "x", "t">>
       /\ input.alternativeDomainPublic = <<"c", "d", "n", ".", "e", "x", "a", "m", "p", "l", "e", ".", "c", "o", "m">> ) =>
       \A i \in DOMAIN OutputsNamed(OutFileUrl) :
         OutputsNamed(OutFileUrl)[i].value = <<"h", "t", "t", "p", "s", ":", "/", "/", "c", "d", "n", ".", "e", "x", "a", "m", "p", "l", "e", ".", "c", "o", "m", "/", "x", "/", "y", ".", "t", "x", "t">>

\* C8 witness: a private file with both alternative domains given: its URL
\* went out under the private domain, its QR code's under the public one.
C8_PrivateFilePublicQrDomain ==
  /\ pc = "done"
  /\ input.public = "false"
  /\ OutputsNamed(OutFileUrl) =
       <<SetOutput(OutFileUrl, <<"h", "t", "t", "p", "s", ":", "/", "/", "p", ".", "i", "o", "/", "x", "/", "y", ".", "t", "x", "t", "?", "X", "-", "A", "m", "z", "-", "S", "i", "g", "n", "a", "t", "u", "r", "e", "=", "s">>)>>
  /\ OutputsNamed(OutQrUrl) =
       <<SetOutput(OutQrUrl, <<"h", "t", "t", "p", "s", ":", "/", "/", "c", "d", "n", ".", "e", "x", "a", "m", "p", "l", "e", ".", "c", "o", "m", "/", "x", "/", "q", "r", ".", "p", "n", "g">>)>>

(***************************************************************************)
(* C9.  Checksum fields of the upload.                                     *)
(***************************************************************************)

ChecksumFields ==
  {"ChecksumCRC32", "ChecksumCRC32C", "ChecksumCRC64NVME", "ChecksumSHA1",
   "ChecksumSHA256"}

\* The field named for an algorithm.
FieldNamedFor(alg) ==
  CASE alg = "CRC32"     -> "ChecksumCRC32"
    [] alg = "CRC32C"    -> "ChecksumCRC32C"
    [] alg = "CRC64NVME" -> "ChecksumCRC64NVME"
    [] alg = "SHA1"      -> "ChecksumSHA1"
    [] alg = "SHA256"    -> "ChecksumSHA256"
    [] OTHER             -> "none"

\* The bytes a base64 text stands for: four characters to three bytes, "="
\* padding dropped.
B64Index(c) == (CHOOSE i \in DOMAIN Base64Alphabet : Base64Alphabet[i] = c) - 1

RECURSIVE Base64Bytes(_)
Base64Bytes(t) ==
  IF Len(t) < 4 THEN <<>>
  ELSE LET a == B64Index(t[1])
           b == B64Index(t[2])
           c == IF t[3] = "=" THEN 0 ELSE B64Index(t[3])
           d == IF t[4] = "=" THEN 0 ELSE B64Index(t[4])
           n == ((a * 64 + b) * 64 + c) * 64 + d
           k == IF t[3] = "=" THEN 1 ELSE IF t[4] = "=" THEN 2 ELSE 3
       IN  SubSeq(<<n \div 65536, (n \div 256) % 256, n % 256>>, 1, k)
             \o Base64Bytes(SubSeq(t, 5, Len(t)))

\* The bytes a hexadecimal text spells, two digits a byte, read right to
\* left within the pair; a last unpaired digit spells nothing.
HexPairBytes(h) ==
  [i \in 1..(Len(h) \div 2) |-> HexVal(h[2 * i]) + 16 * HexVal(h[2 * i - 1])]

AllHex(h) ==
  \A i \in DOMAIN h :
    h[i] \in {"0", "1", "2", "3", "4", "5", "6", "7", "8", "9", "a", "b", "c",
              "d", "e", "f", "A", "B", "C", "D", "E", "F"}

\* C9: the upload carries a checksum-value field only when a supported
\* algorithm and a non-empty checksum are both given, and then exactly the
\* one named for the algorithm; its value is the base64 text of the bytes
\* the input spells in hexadecimal when the input is all hexadecimal digits
\* ("deadbeef" becomes "3q2+7w=="), and the input itself otherwise.
C9_ChecksumField ==
  Puts # <<>> =>
    LET p       == Puts[1].params
        present == DOMAIN p \cap ChecksumFields
        given   == /\ input.checksumAlgorithm \in
                        {"CRC32", "CRC32C", "CRC64NVME", "SHA1", "SHA256"}
                   /\ input.checksum # <<>>
    IN  /\ ~given => present = {}
        /\ given =>
             /\ present = {FieldNamedFor(input.checksumAlgorithm)}
             /\ LET v == p[FieldNamedFor(input.checksumAlgorithm)]
                IN  /\ AllHex(input.checksum) =>
                         /\ Len(v) = 4 * ((Len(input.checksum) \div 2 + 2) \div 3)
                         /\ Base64Bytes(v) = HexPairBytes(input.checksum)
                    /\ ~AllHex(input.checksum) => v = input.checksum
                    /\ input.checksum = <<"d", "e", "a", "d", "b", "e", "e", "f">> => v = <<"3", "q", "2", "+", "7", "w", "=", "=">>

\* C9 witness: "deadbeef" given with SHA256 was uploaded as ChecksumSHA256
\* "3q2+7w==".
C9_DeadbeefUploaded ==
  /\ Puts # <<>>
  /\ input.checksumAlgorithm = "SHA256"
  /\ input.checksum = <<"d", "e", "a", "d", "b", "e", "e", "f">>
  /\ Puts[1].params.ChecksumSHA256 = <<"3", "q", "2", "+", "7", "w", "=", "=">>

(***************************************************************************)
(* C10.  The order of the steps, and what an error leaves undone.          *)
(***************************************************************************)

\* The place of a call in the order main upload, file-URL resolution,
\* file-url output, QR render, QR upload, temp-file delete, qr-url output,
\* result; the first put-object of a run is the main upload.
StepRank(i) ==
  LET c == calls[i]
  IN  CASE c.op = "putObject" ->
             IF \E j \in 1..(i - 1) : calls[j].op = "putObject" THEN 5 ELSE 1
        [] c.op = "getSignedUrl" -> 2
        [] c.op = "setOutput" /\ c.name = OutFileUrl -> 3
        [] c.op = "qr.toFile" -> 4
        [] c.op = "unlinkSync" -> 6
        [] c.op = "setOutput" /\ c.name = OutQrUrl -> 7
        [] c.op = "setOutput" /\ c.name = OutResult -> 8
        [] c.op = "setFailed" -> 9
        [] OTHER -> 0

StepIndexes == {i \in DOMAIN calls : calls[i].op # "readFileSync"}

\* Step r has been carried out successfully before call i.
DoneBefore(i, r) ==
  \E j \in 1..(i - 1) :
    /\ j \in StepIndexes
    /\ StepRank(j) = r
    /\ "ok" \in DOMAIN calls[j] => calls[j].ok

\* C10: the calls of a run follow the order main upload, file-URL
\* resolution, file-url output, QR render, QR upload, temp-file delete,
\* qr-url output, none twice; after a failed call nothing but the failure
\* report follows; a failed main upload is the run's only put-object, with
\* no signing request and neither URL output; there are at most two
\* put-objects, the second only after the first succeeded.
C10_OrderedStepsAbortOnError ==
  /\ \A i, j \in StepIndexes : i < j => StepRank(i) < StepRank(j)
  /\ \A i \in DOMAIN calls :
       ("ok" \in DOMAIN calls[i] /\ ~calls[i].ok) =>
         \A j \in (i + 1)..Len(calls) : StepRank(j) \in {8, 9}
  /\ \A i \in StepIndexes :
       /\ StepRank(i) \in 2..7 => DoneBefore(i, 1)
       /\ StepRank(i) = 5 => DoneBefore(i, 4)
       /\ StepRank(i) = 6 => DoneBefore(i, 5)
       /\ StepRank(i) = 7 => DoneBefore(i, 6)
  /\ (Puts # <<>> /\ ~Puts[1].ok) =>
       /\ Len(Puts) = 1
       /\ Signs = <<>>
       /\ OutputsNamed(OutFileUrl) = <<>>
       /\ OutputsNamed(OutQrUrl) = <<>>
  /\ Len(Puts) <= 2
  /\ Len(Puts) = 2 => Puts[1].ok

\* C10 witness: a run that went through all seven steps, in order.
C10_AllStepsInOrder ==
  /\ pc = "done"
  /\ error = NoError
  /\ [i \in 1..Len(SelectSeq(calls, LAMBDA c : c.op # "readFileSync"))
        |-> SelectSeq(calls, LAMBDA c : c.op # "readFileSync")[i].op]
       = <<"putObject", "getSignedUrl", "setOutput", "qr.toFile", "putObject",
           "unlinkSync", "setOutput", "setOutput">>

\* C10, the abort: a run whose main upload failed and that has ended.
C10_MainUploadFailedOnce ==
  /\ pc = "done"
  /\ Len(Puts) = 1
  /\ ~Puts[1].ok

=============================================================================
